---- MODULE Spec2Model ----
(***************************************************************************)
(* Loan_Amortization_Calculator.py: the amortization engine                *)
(* (monthly_payment, amortization_schedule), the command line front end    *)
(* (parse_args, main) and the desktop form (calculate_emi, view_schedule,  *)
(* export_csv, clear_fields).                                              *)
(*                                                                         *)
(* Python floats are binary floating point numbers: every arithmetic       *)
(* result is rounded to the nearest representable value, ties to even.     *)
(* The model keeps that arithmetic and shortens the significand from 53    *)
(* bits to MantBits bits so that the state space is finite.  A float is    *)
(* held as an integer count of units of 2^-FracBits (the spacing of the    *)
(* smallest, gradually underflowing values); a value is representable      *)
(* when it has at most MantBits significant bits.  Infinities and          *)
(* OverflowError are not modelled: the inputs are kept in range.           *)
(***************************************************************************)
EXTENDS Integers, Sequences, FiniteSets

\* ---------------------------------------------------------------- bounds
\* Width of the significand of a float (53 in CPython).
MantBits == 6
\* Largest number of months offered as an input.
MaxMonths == 3

\* Number of fractional bits of the unit in which floats are held.
FracBits == MantBits + 3

\* ------------------------------------------------------ float arithmetic
RECURSIVE Pow2(_)
Pow2(k) == IF k <= 0 THEN 1 ELSE 2 * Pow2(k - 1)

RECURSIVE IntPow(_, _)
IntPow(b, k) == IF k <= 0 THEN 1 ELSE b * IntPow(b, k - 1)

Abs(x) == IF x < 0 THEN -x ELSE x

Sgn(x) == IF x < 0 THEN -1 ELSE 1

Max(a, b) == IF a >= b THEN a ELSE b

RECURSIVE BitLen(_)
BitLen(q) == IF q <= 0 THEN 0 ELSE 1 + BitLen(q \div 2)

\* The spacing of the representable values around an integer quotient q.
Spacing(q) == IF BitLen(q) > MantBits THEN Pow2(BitLen(q) - MantBits) ELSE 1

\* The rational N / D (N >= 0, D > 0) rounded to the nearest representable
\* value, ties to the even significand.
RoundQ(N, D) ==
    LET u   == Spacing(N \div D)
        k   == N \div (D * u)
        rem == N - k * (D * u)
        up  == \/ 2 * rem > D * u
               \/ (2 * rem = D * u /\ k % 2 = 1)
    IN  (IF up THEN k + 1 ELSE k) * u

\* (num / den) * 2^sh rounded to the nearest representable value.
RECURSIVE RoundRat(_, _, _)
RoundRat(num, den, sh) ==
    IF num = 0 THEN 0
    ELSE IF sh < 0 THEN RoundQ(num, den * Pow2(-sh))
    ELSE IF sh > 0 /\ num < den * Pow2(MantBits) THEN RoundRat(2 * num, den, sh - 1)
    ELSE RoundQ(num, den) * Pow2(sh)

\* x = Mant(x) * 2^Expo(x) with Mant(x) odd (x > 0).
RECURSIVE Expo(_)
Expo(x) == IF x <= 0 \/ x % 2 = 1 THEN 0 ELSE 1 + Expo(x \div 2)

Mant(x) == x \div Pow2(Expo(x))

\* An exact real value, given in units, as the nearest float.
FRound(x) == Sgn(x) * RoundQ(Abs(x), 1)

\* float(text) of a decimal integer literal.
ToFloat(i) == FRound(i * Pow2(FracBits))

FAdd(a, b) == FRound(a + b)

FSub(a, b) == FRound(a - b)

FMul(a, b) ==
    Sgn(a) * Sgn(b)
    * RoundRat(Mant(Abs(a)) * Mant(Abs(b)), 1, Expo(Abs(a)) + Expo(Abs(b)) - FracBits)

\* a / b for b # 0.
FDiv(a, b) ==
    Sgn(a) * Sgn(b)
    * RoundRat(Mant(Abs(a)), Mant(Abs(b)), Expo(Abs(a)) - Expo(Abs(b)) + FracBits)

\* x ** n for a float x > 0 and an int n >= 1: the exact power, rounded once.
FPow(x, n) == RoundRat(IntPow(Mant(x), n), 1, n * (Expo(x) - FracBits) + FracBits)

\* One unit in the last place of the float x.
Ulp(x) == Spacing(Abs(x))

\* ------------------------------------------------------------ the engine
\* The digits kept by round(value, 10) in each emitted row.
NDigits == 10

\* N / D (N >= 0, D > 0) as the nearest integer, ties to even.
RoundInt(N, D) ==
    LET k == N \div D
        rem == N - k * D
    IN  IF 2 * rem > D \/ (2 * rem = D /\ k % 2 = 1) THEN k + 1 ELSE k

\* round(v, d): the multiple of 10^-d nearest to v, as a float.  A float is a
\* multiple of 2^-FracBits and so has at most FracBits decimal digits: for
\* d >= FracBits the nearest multiple of 10^-d is v itself.
PyRound(v, d) ==
    IF d >= FracBits THEN v
    ELSE Sgn(v) * RoundQ(RoundInt(Abs(v) * IntPow(10, d), Pow2(FracBits)) * Pow2(FracBits),
                         IntPow(10, d))

One == ToFloat(1)

\* monthly_rate = annual_rate_percent / 100.0 / 12.0
MonthlyRate(annual_rate_percent) ==
    FDiv(FDiv(annual_rate_percent, ToFloat(100)), ToFloat(12))

\* if n_months <= 0: raise ValueError
InvalidTerm(n) == n <= 0

\* principal * r * (1 + r) ** n_months / denom, evaluated left to right.
Annuity(principal, r, n) ==
    FDiv(FMul(FMul(principal, r), FPow(FAdd(One, r), n)),
         FSub(FPow(FAdd(One, r), n), One))

\* monthly_payment with the principal == 0 shortcut taken before the check of
\* n_months.
MonthlyPaymentZeroFirst(principal, annual_rate_percent, n) ==
    LET r == MonthlyRate(annual_rate_percent)
    IN  IF principal = 0 THEN [exc |-> "none", val |-> 0]
        ELSE IF InvalidTerm(n) THEN [exc |-> "ValueError", val |-> 0]
        ELSE IF r = 0 THEN [exc |-> "none", val |-> FDiv(principal, ToFloat(n))]
        ELSE IF FSub(FPow(FAdd(One, r), n), One) = 0
             THEN [exc |-> "ZeroDivisionError", val |-> 0]
        ELSE [exc |-> "none", val |-> Annuity(principal, r, n)]

\* monthly_payment: the exception it ends in ("none" for a return) and the
\* value it returns.
MonthlyPayment(principal, annual_rate_percent, n) ==
    LET r == MonthlyRate(annual_rate_percent)
    IN  IF InvalidTerm(n) THEN [exc |-> "ValueError", val |-> 0]
        ELSE IF principal = 0 THEN [exc |-> "none", val |-> 0]
        ELSE IF r = 0 THEN [exc |-> "none", val |-> FDiv(principal, ToFloat(n))]
        ELSE IF FSub(FPow(FAdd(One, r), n), One) = 0
             THEN [exc |-> "ZeroDivisionError", val |-> 0]
        ELSE [exc |-> "none", val |-> Annuity(principal, r, n)]

\* interest = balance * monthly_rate
Interest(bal, r) == FMul(bal, r)

\* principal_paid = payment - interest
NominalPrincipal(pay, interest) == FSub(pay, interest)

\* if principal_paid > balance
NeedsCorrection(nominal, bal) == nominal > bal

\* The corrected payment with the interest left out.
CorrectedPaymentNoInterest(interest, principal_paid) == principal_paid

\* payment = interest + principal_paid, in the corrected period
CorrectedPayment(interest, principal_paid) == FAdd(interest, principal_paid)

\* The dict appended for month mo.
Row(mo, pay, interest, principal_paid, bal) ==
    [month     |-> mo,
     payment   |-> PyRound(pay, NDigits),
     interest  |-> PyRound(interest, NDigits),
     principal |-> PyRound(principal_paid, NDigits),
     balance   |-> PyRound(Max(bal, 0), NDigits)]

\* One pass of the loop body for month mo: the payment and balance it leaves,
\* the row it appends and whether the correction was taken.
LoopBody(mo, pay, bal, r) ==
    LET interest == Interest(bal, r)
        nominal  == NominalPrincipal(pay, interest)
        clamp    == NeedsCorrection(nominal, bal)
        paid     == IF clamp THEN bal ELSE nominal
        pay2     == IF clamp THEN CorrectedPayment(interest, paid) ELSE pay
        bal2     == FSub(bal, paid)
    IN  [payment |-> pay2, balance |-> bal2, clamped |-> clamp,
         row |-> Row(mo, pay2, interest, paid, bal2)]

\* range(1, n_months): the loop stops one month early.
LastMonthShort(n) == n - 1

\* range(1, n_months + 1): the last month the loop runs for.
LastMonth(n) == n

\* The whole of amortization_schedule as a function of its arguments: the loop
\* from month mo with the rows appended so far.
RECURSIVE ScheduleFrom(_, _, _, _, _, _)
ScheduleFrom(mo, n, pay, bal, r, rows) ==
    IF mo > LastMonth(n) THEN rows
    ELSE LET b == LoopBody(mo, pay, bal, r)
         IN  ScheduleFrom(mo + 1, n, b.payment, b.balance, r, Append(rows, b.row))

AmortizationSchedule(p, annual, n) ==
    LET mp == MonthlyPayment(p, annual, n)
    IN  IF mp.exc # "none" THEN [exc |-> mp.exc, rows |-> <<>>]
        ELSE [exc |-> "none",
              rows |-> ScheduleFrom(1, n, mp.val, p, MonthlyRate(annual), <<>>)]

\* sum(r[field] for r in schedule): floats added left to right, from 0.
RECURSIVE SumPayments(_, _)
SumPayments(rows, acc) ==
    IF rows = <<>> THEN acc ELSE SumPayments(Tail(rows), FAdd(acc, rows[1].payment))

RECURSIVE SumInterest(_, _)
SumInterest(rows, acc) ==
    IF rows = <<>> THEN acc ELSE SumInterest(Tail(rows), FAdd(acc, rows[1].interest))

\* int(round(x)): the float x as the nearest integer, ties to even.
IntRound(x) == Sgn(x) * RoundInt(Abs(x), Pow2(FracBits))

\* f"{value:,.2f}": the amount in hundredths, as printed.
Format2(v) == Sgn(v) * RoundInt(Abs(v) * 100, Pow2(FracBits))

\* f"{value:.1f}": the percentage in tenths, as printed.
Format1(v) == Sgn(v) * RoundInt(Abs(v) * 10, Pow2(FracBits))

\* ------------------------------------------------------------ the inputs
Principals == {ToFloat(-100), ToFloat(0), ToFloat(1), ToFloat(3), ToFloat(100)}

Rates == {ToFloat(-48), ToFloat(0), ToFloat(10), ToFloat(48), ToFloat(300), ToFloat(1200),
          ToFloat(4800)}

Months == (-1) .. MaxMonths

\* Terms in years: -1, 0, 1/32 (rounds to 0 months), 1/8 (2 months), 1/4 (3 months).
Years == {ToFloat(-1), ToFloat(0), FDiv(One, ToFloat(32)), FDiv(One, ToFloat(8)),
          FDiv(One, ToFloat(4))}

ValidTerms(p, rate, n) == p >= 0 /\ rate >= 0 /\ n >= 1

\* An optional value: <<>> is None (or an attribute that is not set), <<v>> is v.
None == <<>>

Some(v) == <<v>>

\* The text of an entry field: a number float() reads, or text it rejects.
Num(v) == [num |-> TRUE, val |-> v]

NotNumeric == [num |-> FALSE, val |-> 0]

\* ---------------------------------------------------------------- state
VARIABLES
    \* the engine called on its own
    principal,            \* the three arguments of the call
    annual_rate_percent,
    n_months,
    mpc,                  \* monthly_payment called directly: "call", "done"
    mpResult,             \* what that call ended in
    pc,                   \* amortization_schedule: "call", "loop", "returned", "raised"
    payment,              \* its locals
    balance,
    monthly_rate,
    m,
    schedule,
    raised,               \* the exception it ended in, "none" otherwise
    clamps,               \* per appended row: was the correction taken
    \* the command line
    args,                 \* the namespace parse_args returns
    cli_pc,               \* main: "start", "term", "done"
    cli_n_months,         \* main's n_months
    cli_exc,              \* the exception main ended in, "none" otherwise
    cli_out,              \* what main printed
    cli_csv,              \* the file main wrote
    \* the desktop form
    salary_var,
    loan_var,
    rate_var,
    tenure_var,
    result_label,
    emi_label,
    status_label,
    calculate_emi,        \* the attributes stored on the handler
    messagebox,           \* the dialog shown last
    schedule_win,         \* the schedule window opened last
    csv_file,             \* the file written last
    lastGood,             \* history: what the last successful Calculate EMI stored
    lastEvent             \* history: the last thing the user did and how it ended

engineVars == <<principal, annual_rate_percent, n_months, mpc, mpResult, pc, payment,
                balance, monthly_rate, m, schedule, raised, clamps>>

cliVars == <<args, cli_pc, cli_n_months, cli_exc, cli_out, cli_csv>>

guiVars == <<salary_var, loan_var, rate_var, tenure_var, result_label, emi_label,
             status_label, calculate_emi, messagebox, schedule_win, csv_file,
             lastGood, lastEvent>>

vars == <<engineVars, cliVars, guiVars>>

call == <<principal, annual_rate_percent, n_months>>

\* ------------------------------------------------- the engine, step by step
EngineInit ==
    /\ principal \in Principals
    /\ annual_rate_percent \in Rates
    /\ n_months \in Months
    /\ mpc = "call"
    /\ mpResult = [exc |-> "none", val |-> 0]
    /\ pc = "call"
    /\ payment = 0
    /\ balance = 0
    /\ monthly_rate = 0
    /\ m = 0
    /\ schedule = <<>>
    /\ raised = "none"
    /\ clamps = <<>>

EngineIdle ==
    /\ principal = 0
    /\ annual_rate_percent = 0
    /\ n_months = 0
    /\ mpc = "done"
    /\ mpResult = [exc |-> "none", val |-> 0]
    /\ pc = "idle"
    /\ payment = 0
    /\ balance = 0
    /\ monthly_rate = 0
    /\ m = 0
    /\ schedule = <<>>
    /\ raised = "none"
    /\ clamps = <<>>

\* monthly_payment(principal, annual_rate_percent, n_months) called directly.
PaymentCall ==
    /\ mpc = "call"
    /\ mpc' = "done"
    /\ mpResult' = MonthlyPayment(principal, annual_rate_percent, n_months)
    /\ UNCHANGED <<call, pc, payment, balance, monthly_rate, m, schedule, raised, clamps>>
    /\ UNCHANGED <<cliVars, guiVars>>

\* amortization_schedule, up to the loop: the nominal payment or its exception.
ScheduleStart ==
    /\ pc = "call"
    /\ LET mp == MonthlyPayment(principal, annual_rate_percent, n_months)
       IN  IF mp.exc # "none"
           THEN /\ pc' = "raised"
                /\ raised' = mp.exc
                /\ UNCHANGED <<payment, balance, monthly_rate, m, schedule>>
           ELSE /\ pc' = "loop"
                /\ payment' = mp.val
                /\ balance' = principal
                /\ monthly_rate' = MonthlyRate(annual_rate_percent)
                /\ m' = 1
                /\ schedule' = <<>>
                /\ UNCHANGED raised
    /\ UNCHANGED <<call, mpc, mpResult, clamps>>
    /\ UNCHANGED <<cliVars, guiVars>>

\* One iteration of for m in range(1, n_months + 1).
ScheduleLoop ==
    /\ pc = "loop"
    /\ m <= LastMonth(n_months)
    /\ LET b == LoopBody(m, payment, balance, monthly_rate)
       IN  /\ payment' = b.payment
           /\ balance' = b.balance
           /\ schedule' = Append(schedule, b.row)
           /\ clamps' = Append(clamps, b.clamped)
    /\ m' = m + 1
    /\ UNCHANGED <<call, mpc, mpResult, pc, monthly_rate, raised>>
    /\ UNCHANGED <<cliVars, guiVars>>

\* return schedule
ScheduleReturn ==
    /\ pc = "loop"
    /\ m > LastMonth(n_months)
    /\ pc' = "returned"
    /\ UNCHANGED <<call, mpc, mpResult, payment, balance, monthly_rate, m, schedule,
                   raised, clamps>>
    /\ UNCHANGED <<cliVars, guiVars>>

EngineNext == PaymentCall \/ ScheduleStart \/ ScheduleLoop \/ ScheduleReturn

\* --------------------------------------------------------- the command line
\* --csv is optional.
CsvArgs == {None, Some("schedule.csv")}

\* parse_args: principal and rate are required; --years and --months are
\* mutually exclusive and one of them is required, so exactly one is not None.
ParseArgs ==
    {[principal |-> p, rate |-> r, years |-> None, months |-> Some(k), csv |-> c] :
        p \in Principals, r \in Rates, k \in Months, c \in CsvArgs}
    \cup
    {[principal |-> p, rate |-> r, years |-> Some(y), months |-> None, csv |-> c] :
        p \in Principals, r \in Rates, y \in Years, c \in CsvArgs}

\* if args.months is not None: only None is rejected.
TruthyNotNone(opt) == opt # None

\* if args.months: None and 0 are both falsy.
Truthy(opt) == opt # None /\ opt[1] # 0

\* print_schedule: each row as printed, amounts to two decimals.
PrintedRows(rows) ==
    [k \in 1 .. Len(rows) |->
        [month     |-> rows[k].month,
         payment   |-> Format2(rows[k].payment),
         interest  |-> Format2(rows[k].interest),
         principal |-> Format2(rows[k].principal),
         balance   |-> Format2(rows[k].balance)]]

\* write_csv: the header and one record per row; str() of a float reads back
\* as the same float, so a record is held as the row itself.
CsvText(rows) ==
    [header |-> <<"month", "payment", "interest", "principal", "balance">>,
     records |-> rows]

CliInit ==
    /\ args \in ParseArgs
    /\ cli_pc = "start"
    /\ cli_n_months = None
    /\ cli_exc = "none"
    /\ cli_out = None
    /\ cli_csv = None

CliIdle ==
    /\ args = None
    /\ cli_pc = "idle"
    /\ cli_n_months = None
    /\ cli_exc = "none"
    /\ cli_out = None
    /\ cli_csv = None

\* main, the choice of n_months: args.months when truthy, else args.years * 12,
\* which is None * 12 when --years was not given.
MainTerm ==
    /\ cli_pc = "start"
    /\ IF Truthy(args.months)
       THEN /\ cli_n_months' = Some(args.months[1])
            /\ cli_pc' = "term"
            /\ UNCHANGED cli_exc
       ELSE IF args.years = None
       THEN /\ cli_exc' = "TypeError"
            /\ cli_pc' = "done"
            /\ UNCHANGED cli_n_months
       ELSE /\ cli_n_months' = Some(IntRound(FMul(args.years[1], ToFloat(12))))
            /\ cli_pc' = "term"
            /\ UNCHANGED cli_exc
    /\ UNCHANGED <<args, cli_out, cli_csv>>
    /\ UNCHANGED <<engineVars, guiVars>>

\* main, from the engine calls to the end: the report and the optional file,
\* or the engine's exception, which main does not catch.  The echoed rate
\* line is left out of the report.
MainReport ==
    /\ cli_pc = "term"
    /\ LET n  == cli_n_months[1]
           mp == MonthlyPayment(args.principal, args.rate, n)
           sc == AmortizationSchedule(args.principal, args.rate, n)
       IN  IF mp.exc # "none"
           THEN /\ cli_exc' = mp.exc
                /\ UNCHANGED <<cli_out, cli_csv>>
           ELSE /\ cli_out' = Some([loan_amount    |-> Format2(args.principal),
                                    term           |-> n,
                                    payment        |-> Format2(mp.val),
                                    rows           |-> PrintedRows(sc.rows),
                                    total_paid     |-> Format2(SumPayments(sc.rows, 0)),
                                    total_interest |-> Format2(SumInterest(sc.rows, 0))])
                /\ cli_csv' = IF args.csv # None THEN Some(CsvText(sc.rows)) ELSE None
                /\ UNCHANGED cli_exc
    /\ cli_pc' = "done"
    /\ UNCHANGED <<args, cli_n_months>>
    /\ UNCHANGED <<engineVars, guiVars>>

CliNext == MainTerm \/ MainReport

\* --------------------------------------------------------- the desktop form
\* The texts the entries start with and Clear restores.  The source's
\* "2000000", "20000000", "10" and "10" (a loan ten times the salary, over 120
\* months) stand here scaled to the model's range: 10, 100, 1200 and 1/4.
DefaultSalary == Num(ToFloat(10))

DefaultLoan == Num(ToFloat(100))

DefaultRate == Num(ToFloat(1200))

DefaultTenure == Num(FDiv(One, ToFloat(4)))

\* What the user may type into each entry.
SalaryTexts == {DefaultSalary, NotNumeric, Num(ToFloat(0))}

LoanTexts == {DefaultLoan, Num(ToFloat(3)), Num(ToFloat(0))}

RateTexts == {DefaultRate, Num(ToFloat(10)), Num(ToFloat(-1))}

TenureTexts == {DefaultTenure, Num(FDiv(One, ToFloat(32))), Num(ToFloat(0))}

\* What asksaveasfilename returns: "" when the dialog is cancelled.
SavePaths == {"", "loan_amortization.csv"}

Dialog(kind, title, message) == [kind |-> kind, title |-> title, message |-> message]

NotPositiveError == Dialog("showerror", "Error", "Please enter valid positive values.")

NotNumericError == Dialog("showerror", "Error", "Please enter valid numeric values.")

CalculateFirst == Dialog("showwarning", "Warning", "Please calculate EMI first.")

Exported == Dialog("showinfo", "Success", "Schedule exported")

\* n_months = int(round(tenure_years * 12))
TenureMonths(tenure_years) == IntRound(FMul(tenure_years, ToFloat(12)))

\* if principal <= 0 or rate < 0 or tenure_years <= 0 or salary <= 0
NotPositive(salary, p, rate, tenure_years) ==
    p <= 0 \/ rate < 0 \/ tenure_years <= 0 \/ salary <= 0

\* How calculate_emi ends for the four entry texts: "not_numeric" (a ValueError,
\* from float() or from the engine, caught), "not_positive" (the check),
\* "ok", or the exception it does not catch.
CalculateOutcome(sal, loan, rate, ten) ==
    IF ~(sal.num /\ loan.num /\ rate.num /\ ten.num) THEN "not_numeric"
    ELSE IF NotPositive(sal.val, loan.val, rate.val, ten.val) THEN "not_positive"
    ELSE LET mp == MonthlyPayment(loan.val, rate.val, TenureMonths(ten.val))
         IN  IF mp.exc = "ValueError" THEN "not_numeric"
             ELSE IF mp.exc # "none" THEN mp.exc
             ELSE "ok"

\* if payment > salary * 0.5
NotAffordable(pay, salary) == pay > FMul(salary, FDiv(One, ToFloat(2)))

\* emi_percentage = (payment / salary) * 100
EmiPercentage(pay, salary) == FMul(FDiv(pay, salary), ToFloat(100))

\* The five attributes calculate_emi sets on itself.
Attributes(p, rate, n) ==
    [schedule  |-> AmortizationSchedule(p, rate, n).rows,
     payment   |-> MonthlyPayment(p, rate, n).val,
     principal |-> p,
     rate      |-> rate,
     n_months  |-> n]

\* The attributes stored ahead of the check of the values, so that a click
\* the check rejects stores too.
AttributesAfterEarlyStore(outcome, old, p, rate, n) ==
    IF outcome \in {"ok", "not_positive"} THEN Some(Attributes(p, rate, n)) ELSE old

\* The attributes after calculate_emi has run: set on the path that reaches
\* the end of the try block, left as they were on every other.
AttributesAfter(outcome, old, p, rate, n) ==
    IF outcome = "ok" THEN Some(Attributes(p, rate, n)) ELSE old

\* hasattr(calculate_emi, 'schedule')
HasSchedule(attrs) == attrs # None

GuiInit ==
    /\ salary_var = DefaultSalary
    /\ loan_var = DefaultLoan
    /\ rate_var = DefaultRate
    /\ tenure_var = DefaultTenure
    /\ result_label = None
    /\ emi_label = None
    /\ status_label = None
    /\ calculate_emi = None
    /\ messagebox = None
    /\ schedule_win = None
    /\ csv_file = None
    /\ lastGood = None
    /\ lastEvent = <<"none", "none">>

GuiIdle ==
    /\ salary_var = NotNumeric
    /\ loan_var = NotNumeric
    /\ rate_var = NotNumeric
    /\ tenure_var = NotNumeric
    /\ result_label = None
    /\ emi_label = None
    /\ status_label = None
    /\ calculate_emi = None
    /\ messagebox = None
    /\ schedule_win = None
    /\ csv_file = None
    /\ lastGood = None
    /\ lastEvent = <<"idle", "idle">>

fields == <<salary_var, loan_var, rate_var, tenure_var>>

labels == <<result_label, emi_label, status_label>>

\* The user types into an entry.
TypeSalary ==
    /\ \E t \in SalaryTexts : salary_var' = t
    /\ lastEvent' = <<"type", "done">>
    /\ UNCHANGED <<loan_var, rate_var, tenure_var, labels, calculate_emi, messagebox,
                   schedule_win, csv_file, lastGood>>
    /\ UNCHANGED <<engineVars, cliVars>>

TypeLoan ==
    /\ \E t \in LoanTexts : loan_var' = t
    /\ lastEvent' = <<"type", "done">>
    /\ UNCHANGED <<salary_var, rate_var, tenure_var, labels, calculate_emi, messagebox,
                   schedule_win, csv_file, lastGood>>
    /\ UNCHANGED <<engineVars, cliVars>>

TypeRate ==
    /\ \E t \in RateTexts : rate_var' = t
    /\ lastEvent' = <<"type", "done">>
    /\ UNCHANGED <<salary_var, loan_var, tenure_var, labels, calculate_emi, messagebox,
                   schedule_win, csv_file, lastGood>>
    /\ UNCHANGED <<engineVars, cliVars>>

TypeTenure ==
    /\ \E t \in TenureTexts : tenure_var' = t
    /\ lastEvent' = <<"type", "done">>
    /\ UNCHANGED <<salary_var, loan_var, rate_var, labels, calculate_emi, messagebox,
                   schedule_win, csv_file, lastGood>>
    /\ UNCHANGED <<engineVars, cliVars>>

\* The Calculate EMI button.
CalculateEmi ==
    LET outcome == CalculateOutcome(salary_var, loan_var, rate_var, tenure_var)
        n       == TenureMonths(tenure_var.val)
        pay     == MonthlyPayment(loan_var.val, rate_var.val, n).val
    IN  /\ lastEvent' = <<"calculate_emi", outcome>>
        /\ messagebox' = IF outcome = "not_numeric" THEN Some(NotNumericError)
                         ELSE IF outcome = "not_positive" THEN Some(NotPositiveError)
                         ELSE None
        /\ IF outcome = "ok"
           THEN /\ result_label' = Some("Financial Analysis")
                /\ emi_label' = Some(Format2(pay))
                /\ status_label' =
                      Some([status |-> IF NotAffordable(pay, salary_var.val)
                                       THEN "NOT AFFORDABLE" ELSE "SAFE (Affordable)",
                            percent |-> Format1(EmiPercentage(pay, salary_var.val))])
                /\ lastGood' = Some(Attributes(loan_var.val, rate_var.val, n))
           ELSE UNCHANGED <<labels, lastGood>>
        /\ calculate_emi' =
              AttributesAfter(outcome, calculate_emi, loan_var.val, rate_var.val, n)
        /\ UNCHANGED <<fields, schedule_win, csv_file>>
        /\ UNCHANGED <<engineVars, cliVars>>

\* The window view_schedule fills: the rows and the two totals, as shown.
ScheduleWindow(rows) ==
    [rows           |-> PrintedRows(rows),
     total_paid     |-> Format2(SumPayments(rows, 0)),
     total_interest |-> Format2(SumInterest(rows, 0))]

\* The View Schedule button.
ViewSchedule ==
    /\ lastEvent' = <<"view_schedule", "done">>
    /\ IF ~HasSchedule(calculate_emi)
       THEN /\ messagebox' = Some(CalculateFirst)
            /\ UNCHANGED schedule_win
       ELSE /\ messagebox' = None
            /\ schedule_win' = Some(ScheduleWindow(calculate_emi[1].schedule))
    /\ UNCHANGED <<fields, labels, calculate_emi, csv_file, lastGood>>
    /\ UNCHANGED <<engineVars, cliVars>>

\* The Export CSV button.
ExportCsv ==
    /\ IF ~HasSchedule(calculate_emi)
       THEN /\ messagebox' = Some(CalculateFirst)
            /\ lastEvent' = <<"export_csv", "warned">>
            /\ UNCHANGED csv_file
       ELSE \E file_path \in SavePaths :
               IF file_path # ""
               THEN /\ csv_file' = Some(CsvText(calculate_emi[1].schedule))
                    /\ messagebox' = Some(Exported)
                    /\ lastEvent' = <<"export_csv", "written">>
               ELSE /\ messagebox' = None
                    /\ lastEvent' = <<"export_csv", "cancelled">>
                    /\ UNCHANGED csv_file
    /\ UNCHANGED <<fields, labels, calculate_emi, schedule_win, lastGood>>
    /\ UNCHANGED <<engineVars, cliVars>>

\* The Clear button.
ClearFields ==
    /\ salary_var' = DefaultSalary
    /\ loan_var' = DefaultLoan
    /\ rate_var' = DefaultRate
    /\ tenure_var' = DefaultTenure
    /\ result_label' = None
    /\ emi_label' = None
    /\ status_label' = None
    /\ messagebox' = None
    /\ lastEvent' = <<"clear_fields", "done">>
    /\ UNCHANGED <<calculate_emi, schedule_win, csv_file, lastGood>>
    /\ UNCHANGED <<engineVars, cliVars>>

GuiNext ==
    \/ TypeSalary \/ TypeLoan \/ TypeRate \/ TypeTenure
    \/ CalculateEmi \/ ViewSchedule \/ ExportCsv \/ ClearFields

\* ------------------------------------------------------- the specifications
\* The engine called with arguments drawn from the input sets.
Init == EngineInit /\ CliIdle /\ GuiIdle

Next == EngineNext

Spec == Init /\ [][Next]_vars

\* One run of the command line program.
InitCLI == EngineIdle /\ CliInit /\ GuiIdle

NextCLI == CliNext

SpecCLI == InitCLI /\ [][NextCLI]_vars

\* One session of the desktop form.
InitGUI == EngineIdle /\ CliIdle /\ GuiInit

NextGUI == GuiNext

SpecGUI == InitGUI /\ [][NextGUI]_vars

\* ------------------------------------------------- the engine's contract
Returned == pc = "returned"

Valid == ValidTerms(principal, annual_rate_percent, n_months)

\* The value monthly_payment returns for the call's arguments, as a row shows it.
NominalPayment ==
    PyRound(MonthlyPayment(principal, annual_rate_percent, n_months).val, NDigits)

RECURSIVE SumPrincipal(_)
SumPrincipal(rows) ==
    IF rows = <<>> THEN 0 ELSE rows[1].principal + SumPrincipal(Tail(rows))

Largest3(a, b, c) == Max(Abs(a), Max(Abs(b), Abs(c)))

\* C1: for valid terms the returned rows' balance is never negative, never
\* grows from one row to the next, and is exactly 0 in the last row.
C1_BalanceRunsDownToZero ==
    (Returned /\ Valid) =>
        /\ \A k \in 1 .. Len(schedule) : schedule[k].balance >= 0
        /\ \A k \in 1 .. Len(schedule) - 1 : schedule[k + 1].balance <= schedule[k].balance
        /\ schedule[Len(schedule)].balance = 0

\* C2: for valid terms the call returns, with exactly n_months rows, the k-th
\* of them numbered k.
C2_ReturnsOneRowPerMonth ==
    (Valid /\ pc \in {"returned", "raised"}) =>
        /\ Returned
        /\ Len(schedule) = n_months
        /\ \A k \in 1 .. Len(schedule) : schedule[k].month = k

\* C3: with n_months <= 0, whatever the principal and the rate, monthly_payment
\* and amortization_schedule both end in ValueError and no row is ever appended.
C3_InvalidTermRaises ==
    (n_months <= 0) =>
        /\ mpc = "done" => mpResult.exc = "ValueError"
        /\ pc # "call" => (pc = "raised" /\ raised = "ValueError")
        /\ schedule = <<>>

C3_Witness ==
    /\ n_months <= 0
    /\ principal > 0
    /\ mpc = "done"
    /\ pc = "raised"

SumTolerance == 8 * n_months * Ulp(principal)

\* C5: for valid terms the principal portions of the returned rows add up to
\* the principal, within SumTolerance.
C5_PrincipalFullyRetired ==
    (Returned /\ Valid) => Abs(SumPrincipal(schedule) - principal) <= SumTolerance

\* C8: principal 0 with a rate >= 0 and n_months >= 1: monthly_payment returns
\* 0 and the schedule returns n_months rows that are 0 in every amount.
C8_ZeroPrincipal ==
    (principal = 0 /\ Valid) =>
        /\ mpc = "done" => mpResult = [exc |-> "none", val |-> 0]
        /\ pc # "raised"
        /\ Returned => Len(schedule) = n_months
        /\ \A k \in 1 .. Len(schedule) :
              /\ schedule[k].payment = 0
              /\ schedule[k].interest = 0
              /\ schedule[k].principal = 0
              /\ schedule[k].balance = 0

C8_Witness ==
    /\ principal = 0
    /\ annual_rate_percent > 0
    /\ n_months >= 2
    /\ mpc = "done"
    /\ Returned

\* C9: a row in whose period the correction was not taken carries the payment
\* monthly_payment returns, and for valid terms every row but the last does.
C9_OnlyCorrectedRowDiffers ==
    Returned =>
        /\ \A k \in 1 .. Len(schedule) :
              ~clamps[k] => schedule[k].payment = NominalPayment
        /\ Valid => \A k \in 1 .. Len(schedule) - 1 : schedule[k].payment = NominalPayment

\* ------------------------------------------------ the command line's contract
\* C6: main never ends in the engine's ValueError for a term of zero or fewer
\* months: the term is checked, or the failure handled, before it reaches the
\* user.
C6_InvalidTermNeverReachesUser ==
    (cli_pc = "done" /\ cli_n_months # None /\ cli_n_months[1] <= 0) =>
        cli_exc # "ValueError"

\* C7 as stated: after --months 0 main holds a term taken from the years
\* computation.
C7_ZeroMonthsTakesTermFromYears ==
    (args.months = Some(0) /\ cli_pc # "start") => cli_n_months # None

\* C7 as amended: --months 0 is falsy, so main takes the years branch and
\* raises no ValueError; args.years is None there, the computation ends in
\* TypeError, no term is set, the engine is not called, nothing is printed.
C7_ZeroMonthsEndsInTypeError ==
    (args.months = Some(0) /\ cli_pc # "start") =>
        /\ cli_pc = "done"
        /\ cli_exc = "TypeError"
        /\ cli_n_months = None
        /\ cli_out = None
        /\ cli_csv = None

C7_Witness ==
    /\ args.months = Some(0)
    /\ args.principal > 0
    /\ cli_pc = "done"

\* ------------------------------------------------ the desktop form's contract
\* The entry texts the claim counts as a failing Calculate EMI.
FailingTexts ==
    \/ ~(salary_var.num /\ loan_var.num /\ rate_var.num /\ tenure_var.num)
    \/ loan_var.val <= 0
    \/ tenure_var.val <= 0
    \/ salary_var.val <= 0
    \/ rate_var.val < 0
    \/ TenureMonths(tenure_var.val) = 0

\* C10: the attributes on the handler are always those of the last successful
\* Calculate EMI (so Clear and a failing Calculate EMI leave them alone, and
\* a Calculate EMI on failing texts only shows an error); before the first
\* success no window is filled and no file written, and View Schedule and
\* Export CSV show the warning; after it they show and write the stored
\* schedule.
C10_ViewAndExportUseLastGoodSchedule ==
    /\ calculate_emi = lastGood
    /\ lastGood = None => (schedule_win = None /\ csv_file = None)
    /\ (lastEvent[1] = "calculate_emi" /\ FailingTexts) =>
          /\ lastEvent[2] \in {"not_numeric", "not_positive"}
          /\ messagebox \in {Some(NotNumericError), Some(NotPositiveError)}
    /\ lastEvent[1] = "view_schedule" =>
          IF lastGood = None THEN messagebox = Some(CalculateFirst)
          ELSE schedule_win = Some(ScheduleWindow(lastGood[1].schedule))
    /\ lastEvent[1] = "export_csv" =>
          IF lastGood = None THEN messagebox = Some(CalculateFirst)
          ELSE lastEvent[2] = "written" => csv_file = Some(CsvText(lastGood[1].schedule))

C10_Witness ==
    /\ lastGood # None
    /\ schedule_win # None
    /\ csv_file # None
    /\ lastEvent = <<"calculate_emi", "not_numeric">>
    /\ tenure_var.num
    /\ tenure_var.val > 0
    /\ loan_var.num
    /\ loan_var.val # lastGood[1].principal

====
